---- MODULE Spec2Model ----
(***************************************************************************)
(* PocketPulse utility toolkit (src/utils): validation, date and format    *)
(* helpers.  Every function is pure and the functions share no state, so a *)
(* behaviour of the model is one call: an idle caller picks a function and *)
(* its arguments, and the state afterwards records the arguments, the      *)
(* returned value and the exception that escaped the call (if any).        *)
(*                                                                         *)
(* Python values are represented as follows.                               *)
(*   str        a sequence of one-character strings                        *)
(*   None / x   Optional values are None == <<>> or Some(x) == <<x>>       *)
(*   float      [kind, neg, int, frac]: kind "fin", "inf" or "nan"; a      *)
(*              finite value is (-1)^neg * (int + 0.frac), frac being the  *)
(*              fractional decimal digits without trailing zeros.  kind    *)
(*              "huge" is a Python int too large for a double.             *)
(***************************************************************************)
EXTENDS Integers, Sequences, FiniteSets, TLC

VARIABLES pc, fn, args, ret, exc

vars == <<pc, fn, args, ret, exc>>

None == <<>>

Some(x) == <<x>>

NoArgs == [none |-> TRUE]

(***************************************************************************)
(* Python str primitives                                                   *)
(***************************************************************************)
Whitespace == {" ", "\t", "\n"}

DigitChars == <<"0", "1", "2", "3", "4", "5", "6", "7", "8", "9">>

UpperChars == <<"A", "B", "C", "D", "E", "F", "G", "H", "I", "J", "K", "L", "M",
                "N", "O", "P", "Q", "R", "S", "T", "U", "V", "W", "X", "Y", "Z">>

LowerChars == <<"a", "b", "c", "d", "e", "f", "g", "h", "i", "j", "k", "l", "m",
                "n", "o", "p", "q", "r", "s", "t", "u", "v", "w", "x", "y", "z">>

IsDigit(c) == \E i \in 1..10 : DigitChars[i] = c

DigitVal(c) == (CHOOSE i \in 1..10 : DigitChars[i] = c) - 1

IsUpper(c) == \E i \in 1..26 : UpperChars[i] = c

IsLower(c) == \E i \in 1..26 : LowerChars[i] = c

IsAlpha(c) == IsUpper(c) \/ IsLower(c)

LowerChar(c) == IF IsUpper(c) THEN LowerChars[CHOOSE i \in 1..26 : UpperChars[i] = c] ELSE c

lower(s) == [i \in 1..Len(s) |-> LowerChar(s[i])]

\* s.strip(): without leading and trailing whitespace
strip(s) ==
    LET kept == {i \in 1..Len(s) : s[i] \notin Whitespace}
    IN  IF kept = {} THEN <<>>
        ELSE SubSeq(s, CHOOSE i \in kept : \A j \in kept : i <= j,
                    CHOOSE i \in kept : \A j \in kept : j <= i)

startswith(s, p) == Len(s) >= Len(p) /\ SubSeq(s, 1, Len(p)) = p

\* s[i:] for 0 <= i (Python slices clamp to the length)
SliceFrom(s, i) == SubSeq(s, i + 1, Len(s))

Repeat(c, n) == [i \in 1..n |-> c]

\* re.sub(r'\s+', ' ', s): the first character of a whitespace run becomes a
\* space and the rest of the run is dropped
collapse_ws(s) ==
    LET marked == [i \in 1..Len(s) |->
                      IF s[i] \notin Whitespace THEN s[i]
                      ELSE IF i > 1 /\ s[i - 1] \in Whitespace THEN ""
                      ELSE " "]
    IN  SelectSeq(marked, LAMBDA c : c # "")

RECURSIVE DigitsToNat(_)
DigitsToNat(ds) ==
    IF ds = <<>> THEN 0
    ELSE 10 * DigitsToNat(SubSeq(ds, 1, Len(ds) - 1)) + DigitVal(ds[Len(ds)])

(***************************************************************************)
(* Python float and decimal.Decimal                                        *)
(***************************************************************************)
RECURSIVE TrimZeros(_)
TrimZeros(ds) ==
    IF ds # <<>> /\ ds[Len(ds)] = 0 THEN TrimZeros(SubSeq(ds, 1, Len(ds) - 1)) ELSE ds

Fin(neg, int, frac) == [kind |-> "fin", neg |-> neg, int |-> int, frac |-> TrimZeros(frac)]

Inf(neg) == [kind |-> "inf", neg |-> neg, int |-> 0, frac |-> <<>>]

NaN == [kind |-> "nan", neg |-> FALSE, int |-> 0, frac |-> <<>>]

HugeInt == [kind |-> "huge", neg |-> FALSE, int |-> 0, frac |-> <<>>]

Zero == Fin(FALSE, 0, <<>>)

IsZero(a) == a.kind = "fin" /\ a.int = 0 /\ a.frac = <<>>

FracDigit(a, i) == IF i <= Len(a.frac) THEN a.frac[i] ELSE 0

\* |a| < |b| for finite a, b
MagLess(a, b) ==
    \/ a.int < b.int
    \/ /\ a.int = b.int
       /\ \E i \in 1..Len(b.frac) :
             /\ FracDigit(a, i) < b.frac[i]
             /\ \A j \in 1..(i - 1) : FracDigit(a, j) = FracDigit(b, j)

\* the float comparison a < b (any comparison with nan is False)
FloatLess(a, b) ==
    CASE a.kind = "nan" \/ b.kind = "nan" -> FALSE
      [] a.kind = "inf" -> a.neg /\ ~(b.kind = "inf" /\ b.neg)
      [] b.kind = "inf" -> ~b.neg
      [] OTHER ->
            IF IsZero(a) /\ IsZero(b) THEN FALSE
            ELSE IF IsZero(a) THEN ~b.neg
            ELSE IF IsZero(b) THEN a.neg
            ELSE IF a.neg # b.neg THEN a.neg
            ELSE IF a.neg THEN MagLess(b, a)
            ELSE MagLess(a, b)

FloatEq(a, b) ==
    /\ a.kind = "fin"
    /\ b.kind = "fin"
    /\ \/ IsZero(a) /\ IsZero(b)
       \/ a = b

\* a <= b
FloatLeq(a, b) == FloatLess(a, b) \/ FloatEq(a, b) \/ (a.kind = "inf" /\ a = b)

\* a > b
FloatGreater(a, b) == FloatLess(b, a)

\* a decimal literal without exponent: digits with at most one point and at
\* least one digit
IsDecimalBody(b) ==
    /\ \A i \in 1..Len(b) : IsDigit(b[i]) \/ b[i] = "."
    /\ Cardinality({i \in 1..Len(b) : b[i] = "."}) <= 1
    /\ \E i \in 1..Len(b) : IsDigit(b[i])

PointAt(b) == IF \E i \in 1..Len(b) : b[i] = "."
              THEN CHOOSE i \in 1..Len(b) : b[i] = "."
              ELSE Len(b) + 1

IntDigits(b) == SubSeq(b, 1, PointAt(b) - 1)

FracDigits(b) == SubSeq(b, PointAt(b) + 1, Len(b))

DigitVals(ds) == [i \in 1..Len(ds) |-> DigitVal(ds[i])]

Chars_inf == <<"i", "n", "f">>

Chars_infinity == <<"i", "n", "f", "i", "n", "i", "t", "y">>

Chars_nan == <<"n", "a", "n">>

Chars_snan == <<"s", "n", "a", "n">>

\* the builtin float(s) for a str s: [exc, v]
py_float_str(s) ==
    LET t == strip(s)
        signed == t # <<>> /\ Head(t) \in {"+", "-"}
        neg == t # <<>> /\ Head(t) = "-"
        body == IF signed THEN Tail(t) ELSE t
        low == lower(body)
    IN  IF low = Chars_inf \/ low = Chars_infinity THEN [exc |-> "", v |-> Inf(neg)]
        ELSE IF low = Chars_nan THEN [exc |-> "", v |-> NaN]
        ELSE IF IsDecimalBody(body)
             THEN [exc |-> "",
                   v |-> Fin(neg, DigitsToNat(IntDigits(body)), DigitVals(FracDigits(body)))]
        ELSE [exc |-> "ValueError", v |-> NaN]

\* the builtin float(x) for any argument x = [type, s, v]
py_float(x) ==
    CASE x.type = "str" -> py_float_str(x.s)
      [] x.type = "float" -> [exc |-> "", v |-> x.v]
      [] x.type = "int" ->
            IF x.v.kind = "huge" THEN [exc |-> "OverflowError", v |-> NaN]
            ELSE [exc |-> "", v |-> x.v]
      [] OTHER -> [exc |-> "TypeError", v |-> NaN]

\* round(a, 2) for a finite float a.  A decimal tie x.xx5 is never a tie of
\* the binary double: `above` says on which side of it the double lies.
round2(a, above) ==
    LET cents == 10 * FracDigit(a, 1) + FracDigit(a, 2)
        rest == SubSeq(a.frac, 3, Len(a.frac))
        up == IF rest = <<>> THEN FALSE
              ELSE IF rest = <<5>> THEN above
              ELSE rest[1] >= 5
        c == IF up THEN cents + 1 ELSE cents
        i == IF c = 100 THEN a.int + 1 ELSE a.int
        c2 == IF c = 100 THEN 0 ELSE c
    IN  Fin(a.neg, i, <<c2 \div 10, c2 % 10>>)

\* the position of the exponent marker of a numeric string (0: none)
ExponentAt(low) ==
    IF \E i \in 1..Len(low) : low[i] = "e"
    THEN CHOOSE i \in 1..Len(low) : low[i] = "e" /\ \A j \in 1..(i - 1) : low[j] # "e"
    ELSE 0

\* an exponent part: an optional sign and at least one digit
IsExponentPart(x) ==
    LET ds == IF x # <<>> /\ Head(x) \in {"+", "-"} THEN Tail(x) ELSE x
    IN  ds # <<>> /\ \A i \in 1..Len(ds) : IsDigit(ds[i])

ExponentValue(x) ==
    IF Head(x) = "-" THEN -DigitsToNat(Tail(x))
    ELSE IF Head(x) = "+" THEN DigitsToNat(Tail(x))
    ELSE DigitsToNat(x)

\* decimal.Decimal(s): [exc, kind, neg, digits, exponent]; a finite value is
\* (-1)^neg * digits * 10^exponent
Decimal(s) ==
    LET t == strip(s)
        signed == t # <<>> /\ Head(t) \in {"+", "-"}
        neg == t # <<>> /\ Head(t) = "-"
        body == IF signed THEN Tail(t) ELSE t
        low == lower(body)
        e == ExponentAt(low)
        mantissa == IF e = 0 THEN low ELSE SubSeq(low, 1, e - 1)
        exppart == IF e = 0 THEN <<"0">> ELSE SubSeq(low, e + 1, Len(low))
        bad == [exc |-> "InvalidOperation", kind |-> "nan", neg |-> FALSE,
                digits |-> <<>>, exponent |-> 0]
    IN  IF low = Chars_inf \/ low = Chars_infinity
        THEN [bad EXCEPT !.exc = "", !.kind = "inf", !.neg = neg]
        ELSE IF low = Chars_nan \/ low = Chars_snan
        THEN [bad EXCEPT !.exc = "", !.kind = "nan", !.neg = neg]
        ELSE IF IsDecimalBody(mantissa) /\ IsExponentPart(exppart)
        THEN [bad EXCEPT !.exc = "", !.kind = "fin", !.neg = neg,
                         !.digits = DigitVals(IntDigits(mantissa))
                                    \o DigitVals(FracDigits(mantissa)),
                         !.exponent = ExponentValue(exppart) - Len(FracDigits(mantissa))]
        ELSE bad

DecimalIsZero(d) == \A i \in 1..Len(d.digits) : d.digits[i] = 0

RECURSIVE ValsToNat(_)
ValsToNat(ds) ==
    IF ds = <<>> THEN 0 ELSE 10 * ValsToNat(SubSeq(ds, 1, Len(ds) - 1)) + ds[Len(ds)]

RECURSIVE LeadingZerosOff(_)
LeadingZerosOff(ds) ==
    IF ds # <<>> /\ ds[1] = 0 THEN LeadingZerosOff(Tail(ds)) ELSE ds

\* an integral float too large for Fin: digits * 10^zeros, digits without
\* leading or trailing zeros
Big(neg, digits, zeros) ==
    LET ds == TrimZeros(digits)
    IN  [kind |-> "big", neg |-> neg, int |-> zeros + Len(digits) - Len(ds), frac |-> ds]

\* the integral values Fin holds have at most this many digits
MaxFinDigits == 9

\* a value of this many integral digits or more is beyond the doubles
InfDigits == 310

\* the first digits of 2^1024 - 2^970, from which on a value rounds to inf
InfThreshold == <<1, 7, 9, 7, 6, 9, 3, 1, 3, 4, 8, 6, 2, 3, 1, 5, 8, 0, 8>>

\* float(d) for a finite Decimal d
DecimalToFloat(d) ==
    LET ds == LeadingZerosOff(d.digits)
        n == Len(ds) + d.exponent
    IN  IF ds = <<>> THEN Fin(d.neg, 0, <<>>)
        ELSE IF n >= InfDigits
                \/ (n = InfDigits - 1
                    /\ ~MagLess(Fin(FALSE, 0, ds), Fin(FALSE, 0, InfThreshold)))
        THEN Inf(d.neg)
        ELSE IF d.exponent > 0 /\ n > MaxFinDigits THEN Big(d.neg, ds, d.exponent)
        ELSE IF d.exponent > 0
        THEN Fin(d.neg, ValsToNat(ds \o [i \in 1..d.exponent |-> 0]), <<>>)
        ELSE IF n <= 0 THEN Fin(d.neg, 0, [i \in 1..(-n) |-> 0] \o ds)
        ELSE Fin(d.neg, ValsToNat(SubSeq(ds, 1, n)), SubSeq(ds, n + 1, Len(ds)))

(***************************************************************************)
(* Calls and outcomes                                                      *)
(***************************************************************************)
\* a Python argument of any type
PyStr(s) == [type |-> "str", s |-> s, v |-> NaN]

PyFloat(v) == [type |-> "float", s |-> <<>>, v |-> v]

PyInt(v) == [type |-> "int", s |-> <<>>, v |-> v]

PyNone == [type |-> "NoneType", s |-> <<>>, v |-> NaN]

\* `not x` for an Optional[str] argument x
Falsy(x) == x.type = "NoneType" \/ (x.type = "str" /\ x.s = <<>>)

\* the outcome of a call: a returned value or an escaping exception
Return(value) == [ret |-> Some(value), exc |-> ""]

Raise(e) == [ret |-> None, exc |-> e]

\* ret is None until a call returns; afterwards it pairs the function with the
\* value it returned
Call(name, a, r) ==
    /\ pc' = "done"
    /\ fn' = name
    /\ args' = a
    /\ ret' = (IF r.ret = None THEN None ELSE <<name, r.ret[1]>>)
    /\ exc' = r.exc

Strings(alphabet, n) == UNION {[1..k -> alphabet] : k \in 0..n}

(***************************************************************************)
(* src/utils/validation_utils.py                                           *)
(***************************************************************************)
MaxAmount == 999999999

MinDescriptionLen == 3

MaxDescriptionLen == 500

MaxEmailLen == 254

\* re.sub(r'[^\d.-]', '', s) keeps these characters
KeepAmountChar(c) == IsDigit(c) \/ c = "." \/ c = "-"

validate_amount(amount_input, above) ==
    LET cleaned == SelectSeq(strip(amount_input.s), KeepAmountChar)
        conv == IF amount_input.type = "str" THEN py_float_str(cleaned)
                ELSE py_float(amount_input)
        amount == conv.v
    IN  IF amount_input.type = "str" /\ cleaned = <<>>
        THEN Return(<<FALSE, None, Some("Amount cannot be empty")>>)
        ELSE IF conv.exc \in {"ValueError", "TypeError"}
        THEN Return(<<FALSE, None, Some("Invalid amount format")>>)
        ELSE IF conv.exc # "" THEN Raise(conv.exc)
        ELSE IF FloatLeq(amount, Zero)
        THEN Return(<<FALSE, None, Some("Amount must be greater than zero")>>)
        ELSE IF FloatGreater(amount, Fin(FALSE, MaxAmount, <<>>))
        THEN Return(<<FALSE, None, Some("Amount exceeds maximum limit")>>)
        ELSE Return(<<TRUE, Some(IF amount.kind = "fin" THEN round2(amount, above) ELSE amount),
                      None>>)

\* validate_transaction_description handing the text back with a failure
validate_transaction_description_keeps_text(description) ==
    LET cleaned == strip(description.s)
    IN  IF Falsy(description) \/ cleaned = <<>>
        THEN Return(<<FALSE, None, Some("Description cannot be empty")>>)
        ELSE IF Len(cleaned) < MinDescriptionLen
        THEN Return(<<FALSE, Some(cleaned), Some("Description must be at least 3 characters long")>>)
        ELSE IF Len(cleaned) > MaxDescriptionLen
        THEN Return(<<FALSE, None, Some("Description cannot exceed 500 characters")>>)
        ELSE Return(<<TRUE, Some(collapse_ws(cleaned)), None>>)

validate_transaction_description(description) ==
    LET cleaned == strip(description.s)
    IN  IF Falsy(description) \/ cleaned = <<>>
        THEN Return(<<FALSE, None, Some("Description cannot be empty")>>)
        ELSE IF Len(cleaned) < MinDescriptionLen
        THEN Return(<<FALSE, None, Some("Description must be at least 3 characters long")>>)
        ELSE IF Len(cleaned) > MaxDescriptionLen
        THEN Return(<<FALSE, None, Some("Description cannot exceed 500 characters")>>)
        ELSE Return(<<TRUE, Some(collapse_ws(cleaned)), None>>)

validate_category(category, valid_categories) ==
    IF Falsy(category) \/ strip(category.s) = <<>>
    THEN Return(<<FALSE, Some("Category must be selected")>>)
    ELSE IF ~(\E i \in 1..Len(valid_categories) : valid_categories[i] = category.s)
    THEN Return(<<FALSE, Some("Invalid category. Must be one of: {valid_categories}")>>)
    ELSE Return(<<TRUE, None>>)

EmailLocalChar(c) == IsAlpha(c) \/ IsDigit(c) \/ c \in {".", "_", "%", "+", "-"}

EmailDomainChar(c) == IsAlpha(c) \/ IsDigit(c) \/ c \in {".", "-"}

\* re.match(r'^[a-zA-Z0-9._%+-]+@[a-zA-Z0-9.-]+\.[a-zA-Z]{2,}$', e), e without
\* a trailing newline
EmailPatternMatches(e) ==
    \E a \in 2..Len(e) :
        /\ e[a] = "@"
        /\ \A i \in 1..(a - 1) : EmailLocalChar(e[i])
        /\ \E d \in (a + 2)..(Len(e) - 2) :
              /\ e[d] = "."
              /\ \A i \in (a + 1)..(d - 1) : EmailDomainChar(e[i])
              /\ \A i \in (d + 1)..Len(e) : IsAlpha(e[i])

validate_email(email) ==
    LET e == lower(strip(email.s))
    IN  IF Falsy(email) \/ strip(email.s) = <<>>
        THEN Return(<<FALSE, Some("Email address is required")>>)
        ELSE IF ~EmailPatternMatches(e)
        THEN Return(<<FALSE, Some("Invalid email address format")>>)
        ELSE IF Len(e) > MaxEmailLen
        THEN Return(<<FALSE, Some("Email address is too long")>>)
        ELSE Return(<<TRUE, None>>)

\* the character U+0000, one of the control characters
\* [\x00-\x08\x0b\x0c\x0e-\x1f\x7f] and no whitespace
NUL == "NUL"

IsControl(c) == c = NUL

sanitize_input(input_text, max_length) ==
    IF input_text = <<>> THEN Return(<<>>)
    ELSE
        LET stripped == strip(input_text)
            uncontrolled == SelectSeq(stripped, LAMBDA c : ~IsControl(c))
            limited == IF max_length >= 0
                       THEN SubSeq(uncontrolled, 1,
                                   IF max_length < Len(uncontrolled) THEN max_length
                                   ELSE Len(uncontrolled))
                       ELSE SubSeq(uncontrolled, 1, Len(uncontrolled) + max_length)
        IN  Return(collapse_ws(limited))

validate_numeric_range(value, min_val, max_val) ==
    LET conv == py_float(value)
        num_value == conv.v
    IN  IF conv.exc \in {"ValueError", "TypeError"}
        THEN Return(<<FALSE, Some("Invalid numeric value")>>)
        ELSE IF conv.exc # "" THEN Raise(conv.exc)
        ELSE IF FloatLess(num_value, min_val)
        THEN Return(<<FALSE, Some("Value must be at least {min_val}")>>)
        ELSE IF FloatGreater(num_value, max_val)
        THEN Return(<<FALSE, Some("Value cannot exceed {max_val}")>>)
        ELSE Return(<<TRUE, None>>)

validate_text_length(text, min_length, max_length) ==
    LET length == Len(strip(IF Falsy(text) THEN <<>> ELSE text.s))
    IN  IF length < min_length
        THEN Return(<<FALSE, Some("Text must be at least {min_length} characters long")>>)
        ELSE IF length > max_length
        THEN Return(<<FALSE, Some("Text cannot exceed {max_length} characters")>>)
        ELSE Return(<<TRUE, None>>)

validate_currency_amount(amount_str, currency_symbol) ==
    LET stripped == strip(amount_str.s)
        unprefixed == IF startswith(stripped, currency_symbol)
                      THEN strip(SliceFrom(stripped, Len(currency_symbol)))
                      ELSE stripped
        cleaned == SelectSeq(unprefixed, LAMBDA c : c # ",")
        amount == Decimal(cleaned)
    IN  IF Falsy(amount_str) \/ stripped = <<>>
        THEN Return(<<FALSE, None, Some("Amount is required")>>)
        ELSE IF amount.exc = "InvalidOperation"
        THEN Return(<<FALSE, None, Some("Invalid amount format")>>)
        \* amount <= 0: an ordering comparison of a NaN signals InvalidOperation
        ELSE IF amount.kind = "nan"
        THEN Return(<<FALSE, None, Some("Invalid amount format")>>)
        ELSE IF amount.neg \/ (amount.kind = "fin" /\ DecimalIsZero(amount))
        THEN Return(<<FALSE, None, Some("Amount must be greater than zero")>>)
        \* as_tuple().exponent of an infinity is the str 'F': 'F' < -2 is a TypeError,
        \* which the except clause does not name
        ELSE IF amount.kind = "inf" THEN Raise("TypeError")
        ELSE IF amount.exponent < -2
        THEN Return(<<FALSE, None, Some("Amount cannot have more than 2 decimal places")>>)
        ELSE Return(<<TRUE, Some(DecimalToFloat(amount)), None>>)

(***************************************************************************)
(* Arguments of the validators                                             *)
(***************************************************************************)
MaxAmountLen == 4

MaxRangeLen == 3

MaxDescLen == 4

MaxCategoryLen == 2

MaxEmailStrLen == 6

MaxTextLen == 3

MaxCurrencyLen == 4

Text_Infinity == <<"I", "n", "f", "i", "n", "i", "t", "y">>

Text_NaN == <<"N", "a", "N">>

Text_abc == <<"a", "b", "c">>

Text_Rs == <<"R", "s", ".">>

SpecialTexts ==
    {Text_Infinity, Text_NaN, Text_abc, <<"i", "n", "f">>, <<"-">> \o Text_Infinity,
     <<"s", "N", "a", "N">>, <<" ">> \o Text_NaN \o <<" ">>}

AmountChars == {"0", "1", "5", "9", ".", "-", " "}

Floats ==
    {NaN, Inf(FALSE), Inf(TRUE), Zero, Fin(TRUE, 0, <<>>), Fin(TRUE, 5, <<>>),
     Fin(FALSE, 0, <<0, 0, 1>>), Fin(FALSE, 0, <<0, 0, 4>>), Fin(FALSE, 0, <<0, 0, 5>>),
     Fin(FALSE, 0, <<0, 0, 6>>), Fin(FALSE, 0, <<0, 1>>), Fin(FALSE, 1234, <<5>>),
     Fin(FALSE, 7, <<9, 9, 5>>), Fin(FALSE, MaxAmount - 1, <<9, 9, 9>>),
     Fin(FALSE, MaxAmount, <<>>), Fin(FALSE, MaxAmount, <<0, 0, 1>>),
     Fin(FALSE, MaxAmount + 1, <<>>)}

Ints == {Zero, Fin(TRUE, 5, <<>>), Fin(FALSE, 5, <<>>), Fin(FALSE, MaxAmount + 1, <<>>), HugeInt}

Numbers == {PyFloat(v) : v \in Floats} \cup {PyInt(v) : v \in Ints} \cup {PyNone}

AmountInputs ==
    {PyStr(s) : s \in Strings(AmountChars, MaxAmountLen) \cup SpecialTexts} \cup Numbers

RangeChars == {"1", "5", ".", "-", "+", " "}

RangeValues ==
    {PyStr(s) : s \in Strings(RangeChars, MaxRangeLen) \cup SpecialTexts} \cup Numbers

RangeBounds ==
    {<<Zero, Fin(FALSE, 10, <<>>)>>, <<Fin(FALSE, 1, <<>>), Fin(FALSE, 5, <<5>>)>>,
     <<Fin(TRUE, 5, <<>>), Zero>>}

DescChars == {"a", " ", "\t"}

Descriptions ==
    {PyStr(s) : s \in Strings(DescChars, MaxDescLen)
                      \cup {Repeat("a", MaxDescriptionLen), Repeat("a", MaxDescriptionLen + 1),
                            <<" ">> \o Repeat("a", MaxDescriptionLen) \o <<" ">>}}
        \cup {PyNone}

CategoryChars == {"F", "G", " "}

Categories == {PyStr(s) : s \in Strings(CategoryChars, MaxCategoryLen)} \cup {PyNone}

CategoryLists == {<<>>, << <<"F">> >>, << <<"F">>, <<"G", " ">>, <<" ">> >>}

EmailChars == {"a", "@", ".", " "}

Text_atDomain == <<"@", "a", ".", "a", "a">>

Emails ==
    {PyStr(s) : s \in Strings(EmailChars, MaxEmailStrLen)
                      \cup {<<"A", "@", "B", ".", "C", "D">>, <<"a", "@", "a", ".", "a", "1">>,
                            Repeat("a", MaxEmailLen - 5) \o Text_atDomain,
                            Repeat("a", MaxEmailLen - 4) \o Text_atDomain}}
        \cup {PyNone}

TextChars == {"a", " "}

Texts == {PyStr(s) : s \in Strings(TextChars, MaxTextLen)} \cup {PyNone}

CurrencyChars == {"0", "1", ".", ",", "-", " ", "e"}

\* amounts in exponent notation and the amounts of the documentation
CurrencyCorpus ==
    {<<"1", ".", "2", "3", "4", "e", "1">>, <<"1", "e", "4", "0", "0">>,
     <<"1", ".", "5", "E", "+", "2">>, <<"2", "5", "e", "-", "2">>,
     <<"R", "s", ".", " ", "1", ",", "2", "3", "4", ".", "5", "6", "7">>,
     <<"R", "s", ".", " ", "1", ",", "2", "3", "4", ".", "5", "6">>}

CurrencyTexts ==
    LET plain == Strings(CurrencyChars, MaxCurrencyLen)
        short == Strings(CurrencyChars, MaxCurrencyLen - 1)
    IN  {PyStr(s) : s \in plain \cup {Text_Rs \o t : t \in short}
                          \cup {Text_Rs \o <<" ">> \o t : t \in short}
                          \cup SpecialTexts \cup CurrencyCorpus}
            \cup {PyNone}

CurrencySymbols == {Text_Rs, <<"$">>}

MaxSanitizeLen == 4

SanitizeTexts == Strings({"a", " ", NUL}, MaxSanitizeLen)

SanitizeLengths == (-1)..(MaxSanitizeLen + 1)

(***************************************************************************)
(* One call of a validator                                                 *)
(***************************************************************************)
validate_amount_call ==
    /\ pc = "idle"
    /\ \E amount_input \in AmountInputs, above \in BOOLEAN :
           Call("validate_amount", [amount_input |-> amount_input],
                validate_amount(amount_input, above))

validate_transaction_description_call ==
    /\ pc = "idle"
    /\ \E description \in Descriptions :
           Call("validate_transaction_description", [description |-> description],
                validate_transaction_description(description))

validate_category_call ==
    /\ pc = "idle"
    /\ \E category \in Categories, valid_categories \in CategoryLists :
           Call("validate_category",
                [category |-> category, valid_categories |-> valid_categories],
                validate_category(category, valid_categories))

validate_email_call ==
    /\ pc = "idle"
    /\ \E email \in Emails :
           Call("validate_email", [email |-> email], validate_email(email))

validate_numeric_range_call ==
    /\ pc = "idle"
    /\ \E value \in RangeValues, b \in RangeBounds :
           Call("validate_numeric_range", [value |-> value, min_val |-> b[1], max_val |-> b[2]],
                validate_numeric_range(value, b[1], b[2]))

validate_text_length_call ==
    /\ pc = "idle"
    /\ \E text \in Texts, min_length \in 0..MaxTextLen, max_length \in 0..MaxTextLen :
           Call("validate_text_length",
                [text |-> text, min_length |-> min_length, max_length |-> max_length],
                validate_text_length(text, min_length, max_length))

validate_currency_amount_call ==
    /\ pc = "idle"
    /\ \E amount_str \in CurrencyTexts, currency_symbol \in CurrencySymbols :
           Call("validate_currency_amount",
                [amount_str |-> amount_str, currency_symbol |-> currency_symbol],
                validate_currency_amount(amount_str, currency_symbol))

sanitize_input_call ==
    /\ pc = "idle"
    /\ \E input_text \in SanitizeTexts, max_length \in SanitizeLengths :
           Call("sanitize_input",
                [input_text |-> input_text, max_length |-> max_length],
                sanitize_input(input_text, max_length))

Init ==
    /\ pc = "idle"
    /\ fn = ""
    /\ args = NoArgs
    /\ ret = None
    /\ exc = ""

NextValidation ==
    \/ validate_amount_call
    \/ validate_transaction_description_call
    \/ validate_category_call
    \/ validate_email_call
    \/ validate_numeric_range_call
    \/ validate_text_length_call
    \/ validate_currency_amount_call
    \/ sanitize_input_call

SpecValidation == Init /\ [][NextValidation]_vars

(***************************************************************************)
(* Python datetime and timedelta                                           *)
(*   datetime   [year, month, day, hour, minute, second, microsecond]      *)
(*   timedelta  [days, seconds, microseconds], normalised as Python does   *)
(* An operation that can fail yields [exc, v].                             *)
(***************************************************************************)
MINYEAR == 1

MAXYEAR == 9999

MaxDeltaDays == 999999999

IsLeap(y) == y % 4 = 0 /\ (y % 100 # 0 \/ y % 400 = 0)

DaysInMonth(y, m) ==
    IF m = 2 THEN (IF IsLeap(y) THEN 29 ELSE 28)
    ELSE IF m \in {4, 6, 9, 11} THEN 30 ELSE 31

DaysBeforeYear(y) == (y - 1) * 365 + (y - 1) \div 4 - (y - 1) \div 100 + (y - 1) \div 400

RECURSIVE DaysBeforeMonth(_, _)
DaysBeforeMonth(y, m) ==
    IF m = 1 THEN 0 ELSE DaysBeforeMonth(y, m - 1) + DaysInMonth(y, m - 1)

ymd2ord(y, m, d) == DaysBeforeYear(y) + DaysBeforeMonth(y, m) + d

MaxOrdinal == ymd2ord(MAXYEAR, 12, 31)

\* the year, month and day of ordinal n, 1 <= n <= MaxOrdinal
ord2ymd(n) ==
    LET n0 == n - 1
        n400 == n0 \div 146097
        r400 == n0 % 146097
        n100 == r400 \div 36524
        r100 == r400 % 36524
        n4 == r100 \div 1461
        r4 == r100 % 1461
        n1 == r4 \div 365
        r1 == r4 % 365
        y == n400 * 400 + 1 + n100 * 100 + n4 * 4 + n1
    IN  IF n1 = 4 \/ n100 = 4 THEN [year |-> y - 1, month |-> 12, day |-> 31]
        ELSE LET m == CHOOSE k \in 1..12 :
                          /\ DaysBeforeMonth(y, k) <= r1
                          /\ r1 < DaysBeforeMonth(y, k) + DaysInMonth(y, k)
             IN  [year |-> y, month |-> m, day |-> r1 - DaysBeforeMonth(y, m) + 1]

datetime(y, m, d, hh, mm, ss, us) ==
    [year |-> y, month |-> m, day |-> d, hour |-> hh, minute |-> mm, second |-> ss,
     microsecond |-> us]

NoDate == datetime(0, 0, 0, 0, 0, 0, 0)

Ok(v) == [exc |-> "", v |-> v]

Fail(e) == [exc |-> e, v |-> NoDate]

toordinal(dt) == ymd2ord(dt.year, dt.month, dt.day)

\* Monday = 0 ... Sunday = 6
weekday(dt) == (toordinal(dt) + 6) % 7

SecondOfDay(dt) == dt.hour * 3600 + dt.minute * 60 + dt.second

\* dt1 <= dt2 and dt1 < dt2
DtLess(a, b) ==
    \/ toordinal(a) < toordinal(b)
    \/ /\ toordinal(a) = toordinal(b)
       /\ \/ SecondOfDay(a) < SecondOfDay(b)
          \/ SecondOfDay(a) = SecondOfDay(b) /\ a.microsecond < b.microsecond

DtLeq(a, b) == a = b \/ DtLess(a, b)

\* timedelta(days=, seconds=, microseconds=): OverflowError beyond +-999999999 days
timedelta(days, seconds, microseconds) ==
    LET s == seconds + microseconds \div 1000000
        d == days + s \div 86400
    IN  IF d > MaxDeltaDays \/ d < -MaxDeltaDays THEN [exc |-> "OverflowError", days |-> 0,
                                                       seconds |-> 0, microseconds |-> 0]
        ELSE [exc |-> "", days |-> d, seconds |-> s % 86400,
              microseconds |-> microseconds % 1000000]

\* datetime + timedelta: OverflowError when the date leaves 0001-01-01 .. 9999-12-31
DtAdd(dt, td) ==
    LET us == dt.microsecond + td.microseconds
        s == SecondOfDay(dt) + td.seconds + us \div 1000000
        d == toordinal(dt) + td.days + s \div 86400
        sod == s % 86400
        ymd == ord2ymd(d)
    IN  IF td.exc # "" THEN Fail(td.exc)
        ELSE IF d < 1 \/ d > MaxOrdinal THEN Fail("OverflowError")
        ELSE Ok(datetime(ymd.year, ymd.month, ymd.day, sod \div 3600, (sod % 3600) \div 60,
                         sod % 60, us % 1000000))

\* datetime - timedelta
DtSub(dt, td) ==
    IF td.exc # "" THEN Fail(td.exc)
    ELSE DtAdd(dt, timedelta(-td.days, -td.seconds, -td.microseconds))

\* dt.replace(...): ValueError when the year or the day does not exist
replace(dt, changes) ==
    LET new == [f \in DOMAIN dt |-> IF f \in DOMAIN changes THEN changes[f] ELSE dt[f]]
    IN  IF new.year < MINYEAR \/ new.year > MAXYEAR THEN Fail("ValueError")
        ELSE IF new.month < 1 \/ new.month > 12 THEN Fail("ValueError")
        ELSE IF new.day < 1 \/ new.day > DaysInMonth(new.year, new.month) THEN Fail("ValueError")
        ELSE Ok(new)

Midnight == [hour |-> 0, minute |-> 0, second |-> 0, microsecond |-> 0]

LastInstant == [hour |-> 23, minute |-> 59, second |-> 59, microsecond |-> 999999]

\* `changes` extended by the fields of `more`
With(changes, more) ==
    [f \in DOMAIN changes \cup DOMAIN more |->
        IF f \in DOMAIN more THEN more[f] ELSE changes[f]]

\* r is [exc, v]: apply op to r.v unless r already failed
Then(r, op(_)) == IF r.exc # "" THEN r ELSE op(r.v)

(***************************************************************************)
(* src/utils/date_utils.py                                                 *)
(***************************************************************************)
Chars_today == <<"t", "o", "d", "a", "y">>

Chars_yesterday == <<"y", "e", "s", "t", "e", "r", "d", "a", "y">>

Chars_tomorrow == <<"t", "o", "m", "o", "r", "r", "o", "w">>

Chars_day_before_yesterday == <<"d", "a", "y", " ", "b", "e", "f", "o", "r", "e", " ", "y", "e", "s", "t", "e", "r", "d", "a", "y">>

Chars_day_after_tomorrow == <<"d", "a", "y", " ", "a", "f", "t", "e", "r", " ", "t", "o", "m", "o", "r", "r", "o", "w">>

Chars_last == <<"l", "a", "s", "t">>

Chars_next == <<"n", "e", "x", "t">>

Chars_day == <<"d", "a", "y">>

Chars_week == <<"w", "e", "e", "k">>

Chars_month == <<"m", "o", "n", "t", "h">>

\* `p in s` for strings
Contains(s, p) == \E i \in 0..(Len(s) - Len(p)) : SubSeq(s, i + 1, i + Len(p)) = p

Days(n) == timedelta(n, 0, 0)

\* relative_patterns with the longer phrases first
relative_patterns_longest_first(reference_date) ==
    <<[pattern |-> Chars_day_before_yesterday, date_obj |-> DtSub(reference_date, Days(2))],
      [pattern |-> Chars_day_after_tomorrow, date_obj |-> DtAdd(reference_date, Days(2))],
      [pattern |-> Chars_today, date_obj |-> Ok(reference_date)],
      [pattern |-> Chars_yesterday, date_obj |-> DtSub(reference_date, Days(1))],
      [pattern |-> Chars_tomorrow, date_obj |-> DtAdd(reference_date, Days(1))]>>

\* the dict relative_patterns, in insertion order; every value is computed when
\* the dict is built
relative_patterns(reference_date) ==
    <<[pattern |-> Chars_today, date_obj |-> Ok(reference_date)],
      [pattern |-> Chars_yesterday, date_obj |-> DtSub(reference_date, Days(1))],
      [pattern |-> Chars_tomorrow, date_obj |-> DtAdd(reference_date, Days(1))],
      [pattern |-> Chars_day_before_yesterday, date_obj |-> DtSub(reference_date, Days(2))],
      [pattern |-> Chars_day_after_tomorrow, date_obj |-> DtAdd(reference_date, Days(2))]>>

RECURSIVE DigitRun(_, _)
\* the length of the run of digits of s that starts at position p
DigitRun(s, p) == IF p <= Len(s) /\ IsDigit(s[p]) THEN 1 + DigitRun(s, p + 1) ELSE 0

UnitAt(rest) ==
    IF startswith(rest, Chars_day) THEN "day"
    ELSE IF startswith(rest, Chars_week) THEN "week"
    ELSE IF startswith(rest, Chars_month) THEN "month"
    ELSE ""

\* does r'<kw> (\d+) (day|week|month)s?' match s at position i
PatternAt(s, kw, i) ==
    LET p == i + Len(kw) + 1
        n == DigitRun(s, p)
    IN  /\ startswith(SubSeq(s, i, Len(s)), kw \o <<" ">>)
        /\ n >= 1
        /\ p + n <= Len(s)
        /\ s[p + n] = " "
        /\ UnitAt(SubSeq(s, p + n + 1, Len(s))) # ""

\* re.search of that pattern: the leftmost match, [found, number, unit]
search(kw, s) ==
    IF \E i \in 1..Len(s) : PatternAt(s, kw, i)
    THEN LET i == CHOOSE k \in 1..Len(s) :
                      PatternAt(s, kw, k) /\ \A j \in 1..(k - 1) : ~PatternAt(s, kw, j)
             p == i + Len(kw) + 1
             n == DigitRun(s, p)
         IN  [found |-> TRUE, number |-> DigitsToNat(SubSeq(s, p, p + n - 1)),
              unit |-> UnitAt(SubSeq(s, p + n + 1, Len(s)))]
    ELSE [found |-> FALSE, number |-> 0, unit |-> ""]

\* timedelta(days=number), timedelta(weeks=number), timedelta(days=number * 30)
UnitDelta(number, unit) ==
    IF unit = "day" THEN Days(number)
    ELSE IF unit = "week" THEN Days(7 * number)
    ELSE Days(number * 30)

Outcome(r) == IF r.exc # "" THEN Raise(r.exc) ELSE Return(r.v)

\* parser_parse is what dateutil's parser.parse(text) does: Fail(..) when it
\* raises, Ok(instant) when it returns
parse_natural_date(date_text, reference_date, parser_parse) ==
    LET text == strip(lower(date_text))
        rp == relative_patterns(reference_date)
        last == search(Chars_last, text)
        next == search(Chars_next, text)
    IN  IF \E i \in 1..Len(rp) : rp[i].date_obj.exc # ""
        THEN Raise(rp[CHOOSE i \in 1..Len(rp) :
                          /\ rp[i].date_obj.exc # ""
                          /\ \A j \in 1..(i - 1) : rp[j].date_obj.exc = ""].date_obj.exc)
        ELSE IF \E i \in 1..Len(rp) : Contains(text, rp[i].pattern)
        THEN Return(rp[CHOOSE i \in 1..Len(rp) :
                           /\ Contains(text, rp[i].pattern)
                           /\ \A j \in 1..(i - 1) : ~Contains(text, rp[j].pattern)].date_obj.v)
        ELSE IF last.found
        THEN Outcome(DtSub(reference_date, UnitDelta(last.number, last.unit)))
        ELSE IF next.found
        THEN Outcome(DtAdd(reference_date, UnitDelta(next.number, next.unit)))
        ELSE IF parser_parse.exc # "" THEN Return(reference_date)
        ELSE Return(parser_parse.v)

\* a week span that runs into the next Monday
WeekSpan_eight_days == timedelta(7, 23 * 3600 + 59 * 60 + 59, 999999)

WeekSpan == timedelta(6, 23 * 3600 + 59 * 60 + 59, 999999)

\* a whole second where a microsecond is meant
Microsecond_whole_second == timedelta(0, 1, 0)

Microsecond == timedelta(0, 0, 1)

\* (start, end) once both are computed, start first
Range(start, end) ==
    IF start.exc # "" THEN Raise(start.exc)
    ELSE IF end.exc # "" THEN Raise(end.exc)
    ELSE Return(<<start.v, end.v>>)

AtMidnight(dt) == replace(dt, Midnight)

get_date_range(period, reference_date) ==
    LET ref == reference_date
    IN  CASE period = "week" ->
               LET start == Then(DtSub(ref, Days(weekday(ref))), AtMidnight)
               IN  Range(start, Then(start, LAMBDA d : DtAdd(d, WeekSpan)))
          [] period = "month" ->
               LET start == replace(ref, With([day |-> 1], Midnight))
                   next_month ==
                       Then(start, LAMBDA d :
                           IF d.month < 12 THEN replace(d, [month |-> d.month + 1])
                           ELSE replace(d, [year |-> d.year + 1, month |-> 1]))
               IN  Range(start, Then(next_month, LAMBDA d : DtSub(d, Microsecond)))
          [] period = "year" ->
               Range(replace(ref, With([month |-> 1, day |-> 1], Midnight)),
                     replace(ref, With([month |-> 12, day |-> 31], LastInstant)))
          [] period = "last_week" ->
               LET start == Then(DtSub(ref, Days(weekday(ref) + 7)), AtMidnight)
               IN  Range(start, Then(start, LAMBDA d : DtAdd(d, WeekSpan)))
          [] period = "last_month" ->
               LET first == IF ref.month = 1
                            THEN replace(ref, [year |-> ref.year - 1, month |-> 12, day |-> 1])
                            ELSE replace(ref, [month |-> ref.month - 1, day |-> 1])
                   start == Then(first, AtMidnight)
               IN  Range(start,
                         Then(start, LAMBDA x :
                             Then(replace(ref, With([day |-> 1], Midnight)),
                                  LAMBDA d : DtSub(d, Microsecond))))
          [] OTHER ->
               \* 'today' and every unrecognised tag
               Range(replace(ref, Midnight), replace(ref, LastInstant))

RECURSIVE business_days_loop(_, _, _)
\* the while loop of calculate_business_days
business_days_loop(current_date, end_date, business_days) ==
    IF ~DtLeq(current_date, end_date) THEN Return(business_days)
    ELSE LET counted == IF weekday(current_date) < 5 THEN business_days + 1
                        ELSE business_days
             next == DtAdd(current_date, Days(1))
         IN  IF next.exc # "" THEN Raise(next.exc)
             ELSE business_days_loop(next.v, end_date, counted)

calculate_business_days(start_date, end_date) == business_days_loop(start_date, end_date, 0)

(***************************************************************************)
(* Arguments of the date functions                                         *)
(***************************************************************************)
MaxWords == 2

MaxSpan == 9

Years == {MINYEAR, 2023, 2024, MAXYEAR}

TimesOfDay == {Midnight, [hour |-> 9, minute |-> 30, second |-> 15, microsecond |-> 250],
               LastInstant}

At(y, m, d, t) == datetime(y, m, d, t.hour, t.minute, t.second, t.microsecond)

\* the instant of day ordinal n at time of day t
OnDay(n, t) == LET ymd == ord2ymd(n) IN At(ymd.year, ymd.month, ymd.day, t)

Instants ==
    {At(ymd[1], ymd[2], ymd[3], t) :
        ymd \in {x \in Years \X (1..12) \X (1..31) : x[3] <= DaysInMonth(x[1], x[2])},
        t \in TimesOfDay}

Periods == {"today", "week", "month", "year", "last_week", "last_month", "quarter"}

\* pieces of text; a text is pieces joined by single spaces
Fragments ==
    <<<<"t", "o", "d", "a", "y">>,
      <<"y", "e", "s", "t", "e", "r", "d", "a", "y">>,
      <<"t", "o", "m", "o", "r", "r", "o", "w">>,
      <<"d", "a", "y", " ", "b", "e", "f", "o", "r", "e">>,
      <<"d", "a", "y", " ", "a", "f", "t", "e", "r">>,
      <<"l", "a", "s", "t", " ", "2", " ", "d", "a", "y", "s">>,
      <<"n", "e", "x", "t", " ", "3", " ", "w", "e", "e", "k", "s">>,
      <<"l", "a", "s", "t", " ", "4", "0", "0", "0", "0", "0", "0", " ", "m", "o", "n", "t", "h", "s">>,
      <<"n", "e", "x", "t", " ", "4", "0", "0", "0", "0", "0", "0", " ", "d", "a", "y", "s">>,
      <<"n", "e", "x", "t", " ", "1", " ", "m", "o", "n", "t", "h">>,
      <<"l", "a", "s", "t", " ", "2">>,
      <<"w", "e", "e", "k">>,
      <<"Y", "e", "s", "t", "e", "r", "d", "a", "y">>,
      <<"x">>,
      <<>>>>

RECURSIVE Join(_)
Join(words) ==
    IF words = <<>> THEN <<>>
    ELSE IF Len(words) = 1 THEN Fragments[words[1]]
    ELSE Fragments[words[1]] \o <<" ">> \o Join(Tail(words))

DateTexts == {Join(w) : w \in UNION {[1..k -> 1..Len(Fragments)] : k \in 0..MaxWords}}

ParseReferences ==
    {At(2024, 1, 10, [hour |-> 9, minute |-> 30, second |-> 15, microsecond |-> 250]),
     At(2024, 2, 29, Midnight), At(2023, 12, 31, LastInstant),
     At(MINYEAR, 1, 1, Midnight), At(MINYEAR, 1, 2, LastInstant),
     At(MAXYEAR, 12, 31, LastInstant)}

ParserOutcomes == {Fail("ParserError"), Ok(At(2024, 2, 29, Midnight))}

BusinessStarts ==
    {At(2024, 1, d, t) : d \in 1..7, t \in TimesOfDay}
        \cup {At(MAXYEAR, 12, d, t) : d \in 25..31, t \in TimesOfDay}

\* the instants up to MaxSpan days after (and 2 days before) a start
BusinessEnds ==
    {OnDay(n, t) :
        n \in {toordinal(s) + k : s \in BusinessStarts, k \in -2..MaxSpan} \cap 1..MaxOrdinal,
        t \in TimesOfDay}

(***************************************************************************)
(* One call of a date function                                             *)
(***************************************************************************)
parse_natural_date_call ==
    /\ pc = "idle"
    /\ \E date_text \in DateTexts, reference_date \in ParseReferences,
          parser_parse \in ParserOutcomes :
           Call("parse_natural_date",
                [date_text |-> date_text, reference_date |-> reference_date,
                 parser_parse |-> parser_parse],
                parse_natural_date(date_text, reference_date, parser_parse))

get_date_range_call ==
    /\ pc = "idle"
    /\ \E period \in Periods, reference_date \in Instants :
           Call("get_date_range", [period |-> period, reference_date |-> reference_date],
                get_date_range(period, reference_date))

calculate_business_days_call ==
    /\ pc = "idle"
    /\ \E start_date \in BusinessStarts, end_date \in BusinessEnds :
           /\ toordinal(end_date) - toordinal(start_date) \in -2..MaxSpan
           /\ Call("calculate_business_days",
                   [start_date |-> start_date, end_date |-> end_date],
                   calculate_business_days(start_date, end_date))

NextDate ==
    \/ parse_natural_date_call
    \/ get_date_range_call
    \/ calculate_business_days_call

SpecDate == Init /\ [][NextDate]_vars

(***************************************************************************)
(* src/utils/format_utils.py                                               *)
(***************************************************************************)
\* s[:stop] for any integer stop: a negative stop counts from the end
slice_to(s, stop) ==
    LET j == IF stop < 0 THEN Len(s) + stop ELSE stop
    IN  SubSeq(s, 1, IF j < 0 THEN 0 ELSE IF j > Len(s) THEN Len(s) ELSE j)

RECURSIVE NatToChars(_)
\* the decimal digits of a natural number, without leading zeros
NatToChars(n) ==
    IF n < 10 THEN <<DigitChars[n + 1]>>
    ELSE NatToChars(n \div 10) \o <<DigitChars[(n % 10) + 1]>>

\* str(n) for an integer n
str_int(n) == IF n < 0 THEN <<"-">> \o NatToChars(-n) ELSE NatToChars(n)

\* str(item) for a list item that is a str or an int
str_item(item) ==
    IF item.type = "int" THEN str_int(IF item.v.neg THEN -item.v.int ELSE item.v.int)
    ELSE item.s

RECURSIVE join(_, _)
\* separator.join(strs)
join(separator, strs) ==
    IF strs = <<>> THEN <<>>
    ELSE IF Len(strs) = 1 THEN strs[1]
    ELSE strs[1] \o separator \o join(separator, Tail(strs))

Chars_and == <<" ", "a", "n", "d", " ">>

Chars_more == <<" ", "m", "o", "r", "e">>

format_list_display(items, max_items, separator, final_separator) ==
    IF items = <<>> THEN Return(<<>>)
    ELSE
        LET str_items == [i \in 1..Len(items) |-> str_item(items[i])]
        IN  IF Len(str_items) = 1 THEN Return(str_items[1])
            ELSE IF Len(str_items) = 2
            THEN Return(str_items[1] \o final_separator \o str_items[2])
            ELSE IF Len(str_items) <= max_items
            THEN Return(join(separator, slice_to(str_items, -1)) \o final_separator
                        \o str_items[Len(str_items)])
            ELSE
                LET displayed == slice_to(str_items, max_items)
                    remaining == Len(str_items) - max_items
                IN  Return(join(separator, displayed) \o Chars_and \o str_int(remaining)
                           \o Chars_more)

\* ''.join(filter(str.isdigit, s))
digits_of(s) == SelectSeq(s, IsDigit)

\* a 5 + 4 split that loses the sixth digit
phone_format_drops_digit(country_code, digits) ==
    country_code \o <<" ">> \o slice_to(digits, 5) \o <<" ">> \o SliceFrom(digits, 6)

\* f"{country_code} {digits[:5]} {digits[5:]}"
phone_format(country_code, digits) ==
    country_code \o <<" ">> \o slice_to(digits, 5) \o <<" ">> \o SliceFrom(digits, 5)

DefaultCountryCode == <<"+", "9", "1">>

format_phone_number(phone, country_code) ==
    IF phone = <<>> THEN Return(<<>>)
    ELSE
        LET digits == digits_of(phone)
        IN  IF Len(digits) = 10 THEN Return(phone_format(country_code, digits))
            ELSE IF Len(digits) = 11 /\ startswith(digits, <<"0">>)
            THEN Return(phone_format(country_code, SliceFrom(digits, 1)))
            ELSE Return(phone)

truncate_text(text, max_length, suffix) ==
    IF text = <<>> THEN Return(<<>>)
    ELSE IF Len(text) <= max_length THEN Return(text)
    ELSE Return(slice_to(text, max_length - Len(suffix)) \o suffix)

(***************************************************************************)
(* Arguments of the format functions                                       *)
(***************************************************************************)
MaxItems == 3

MaxPhoneLen == 11

ItemValues == {PyStr(<<"a">>), PyStr(<<"b", "c">>), PyInt(Fin(FALSE, 12, <<>>))}

ItemLists == UNION {[1..k -> ItemValues] : k \in 0..MaxItems}

MaxItemsValues == (-1)..(MaxItems + 1)

Separators == {<<",", " ">>, <<";">>}

FinalSeparators == {Chars_and, <<" ", "&", " ">>}

PhoneDigits == {"0", "9"}

Text_phone_formatted ==
    <<"+", "9", "1", " ", "9", "8", "7", "6", "5", " ", "4", "3", "2", "1", "0">>

Text_phone_dashed == <<"0", "9", "8", "7", "6", "5", "-", "4", "3", "2", "1", "0">>

Text_phone_spaced == <<"9", "8", "7", "6", "5", " ", "4", "3", "2", "1", "0">>

Phones ==
    Strings(PhoneDigits, MaxPhoneLen)
        \cup {Text_phone_formatted, Text_phone_dashed, Text_phone_spaced, Text_abc}

CountryCodes == {DefaultCountryCode, <<"+", "1">>, <<>>}

MaxTruncateLen == 4

TruncateTexts == Strings({"a", " "}, MaxTruncateLen)

TruncateLengths == 0..(MaxTruncateLen + 1)

Suffixes == {<<".", ".", ".">>, <<"~">>, <<>>}

format_list_display_call ==
    /\ pc = "idle"
    /\ \E items \in ItemLists, max_items \in MaxItemsValues,
          separator \in Separators, final_separator \in FinalSeparators :
           Call("format_list_display",
                [items |-> items, max_items |-> max_items, separator |-> separator,
                 final_separator |-> final_separator],
                format_list_display(items, max_items, separator, final_separator))

format_phone_number_call ==
    /\ pc = "idle"
    /\ \E phone \in Phones, country_code \in CountryCodes :
           Call("format_phone_number",
                [phone |-> phone, country_code |-> country_code],
                format_phone_number(phone, country_code))

truncate_text_call ==
    /\ pc = "idle"
    /\ \E text \in TruncateTexts, max_length \in TruncateLengths, suffix \in Suffixes :
           Call("truncate_text",
                [text |-> text, max_length |-> max_length, suffix |-> suffix],
                truncate_text(text, max_length, suffix))

NextFormat ==
    \/ format_list_display_call
    \/ format_phone_number_call
    \/ truncate_text_call

SpecFormat == Init /\ [][NextFormat]_vars

\* a call of any of the functions
Next == NextValidation \/ NextDate \/ NextFormat

Spec == Init /\ [][Next]_vars

(***************************************************************************)
(* Properties of the validators                                            *)
(***************************************************************************)
Returned == pc = "done" /\ exc = ""

\* the returned value
result == ret[2]

ValueValidators ==
    {"validate_amount", "validate_transaction_description", "validate_currency_amount"}

FlagValidators ==
    {"validate_category", "validate_email", "validate_numeric_range", "validate_text_length"}

\* C1: whenever a validator returns, its error message is present exactly when
\* the success flag is false, and (3-element outcomes) its normalized value is
\* present exactly when the success flag is true.
C1_OutcomeShape ==
    Returned =>
        /\ fn \in ValueValidators =>
              /\ (result[3] # None) <=> (result[1] = FALSE)
              /\ (result[2] # None) <=> (result[1] = TRUE)
        /\ fn \in FlagValidators => ((result[2] # None) <=> (result[1] = FALSE))

\* a description that is too short is refused: no value, a message
C1_Witness ==
    /\ Returned
    /\ fn = "validate_transaction_description"
    /\ args.description.type = "str"
    /\ Len(strip(args.description.s)) \in 1..(MinDescriptionLen - 1)
    /\ result = <<FALSE, None, Some("Description must be at least 3 characters long")>>

\* C2: an amount validate_amount accepts is strictly positive, at most
\* 999,999,999 and has at most 2 fractional digits (stated for the finite
\* amounts; a NaN argument is accepted as NaN).
C2_AcceptedAmountIsPositive ==
    Returned /\ fn = "validate_amount" /\ result[1] = TRUE /\ result[2][1].kind = "fin" =>
        LET amount == result[2][1]
        IN  /\ FloatGreater(amount, Zero)
            /\ FloatLeq(amount, Fin(FALSE, MaxAmount, <<>>))
            /\ Len(amount.frac) <= 2

\* the text argument of the validators that parse a number
NumberText ==
    CASE fn = "validate_amount" -> args.amount_input
      [] fn = "validate_numeric_range" -> args.value
      [] fn = "validate_currency_amount" -> args.amount_str

\* C3: on every text argument (blank, non-numeric, a special literal such as
\* 'Infinity' or 'NaN', too many fractional digits) validate_amount,
\* validate_numeric_range and validate_currency_amount end with a normal
\* return, never with an exception.
C3_NumberValidatorsNeverRaise ==
    /\ pc = "done"
    /\ fn \in {"validate_amount", "validate_numeric_range", "validate_currency_amount"}
    /\ NumberText.type = "str"
    => exc = ""

(***************************************************************************)
(* Properties of the date functions                                        *)
(***************************************************************************)
\* C4: for every reference instant get_date_range('month', ref) returns the
\* first day of ref's month at 00:00:00.000000 and the last day of that month
\* at 23:59:59.999999.
C4_MonthRange ==
    pc = "done" /\ fn = "get_date_range" /\ args.period = "month" =>
        LET ref == args.reference_date
        IN  /\ exc = ""
            /\ result[1] = At(ref.year, ref.month, 1, Midnight)
            /\ result[2] = At(ref.year, ref.month, DaysInMonth(ref.year, ref.month), LastInstant)

\* the Monday on or before the day of dt, as a day ordinal
MondayOf(dt) ==
    CHOOSE m \in (toordinal(dt) - 6)..toordinal(dt) : (m + 6) % 7 = 0

WeekCall == pc = "done" /\ fn = "get_date_range" /\ args.period = "week"

\* the week from the Monday on or before ref to the Sunday six days later
IsWeekOf(ref) ==
    /\ exc = ""
    /\ result[1] = OnDay(MondayOf(ref), Midnight)
    /\ result[2] = OnDay(MondayOf(ref) + 6, LastInstant)
    /\ DtLeq(result[1], ref)
    /\ DtLeq(ref, result[2])

\* C5 (as claimed): for every reference instant get_date_range('week', ref)
\* returns the Monday on or before ref at 00:00:00.000000 and the Sunday six
\* days later at 23:59:59.999999, with start <= ref <= end.
C5_WeekRangeAlways == WeekCall => IsWeekOf(args.reference_date)

\* C5 (amended): the same for every reference instant whose Sunday is a
\* representable date (on or before 9999-12-31); for the others, the last five
\* days of year 9999, the call raises OverflowError.
C5_WeekRange ==
    WeekCall =>
        IF MondayOf(args.reference_date) + 6 <= MaxOrdinal
        THEN IsWeekOf(args.reference_date)
        ELSE exc = "OverflowError"

\* a week that starts in December and ends in January
C5_Witness ==
    /\ WeekCall
    /\ exc = ""
    /\ result[1].month = 12
    /\ result[2].month = 1
    /\ result[2].year = result[1].year + 1
    /\ result[1] = OnDay(MondayOf(args.reference_date), Midnight)

ParseCall == pc = "done" /\ fn = "parse_natural_date"

\* the text parse_natural_date looks at
LookedAt == strip(lower(args.date_text))

Phrases ==
    <<Chars_today, Chars_yesterday, Chars_tomorrow, Chars_day_before_yesterday,
      Chars_day_after_tomorrow>>

PhraseOffsets == <<0, -1, 1, -2, 2>>

HasPhrase == \E i \in 1..Len(Phrases) : Contains(LookedAt, Phrases[i])

FirstPhrase ==
    CHOOSE i \in 1..Len(Phrases) :
        /\ Contains(LookedAt, Phrases[i])
        /\ \A j \in 1..(i - 1) : ~Contains(LookedAt, Phrases[j])

HasPattern == search(Chars_last, LookedAt).found \/ search(Chars_next, LookedAt).found

\* C6: parse_natural_date never raises; a text with no phrase and no pattern
\* that the general parser rejects yields the reference instant, and a matched
\* 'last N'/'next N' pattern yields an instant for every N.
C6_ParseNeverRaises ==
    ParseCall =>
        /\ exc = ""
        /\ (~HasPhrase /\ ~HasPattern /\ args.parser_parse.exc # "")
              => result = args.reference_date

\* C7: when parse_natural_date returns and the lower-cased, trimmed text
\* contains a literal phrase, the result is the reference moved by the offset
\* of the first contained phrase in the order today, yesterday, tomorrow, day
\* before yesterday, day after tomorrow (0, -1, +1, -2, +2 days), whether or
\* not a 'last N'/'next N' pattern is present too.
C7_FirstPhraseWins ==
    ParseCall /\ exc = "" /\ HasPhrase =>
        result = DtAdd(args.reference_date, Days(PhraseOffsets[FirstPhrase])).v

\* 'day before yesterday' yields yesterday
C7_Witness ==
    /\ ParseCall
    /\ exc = ""
    /\ Contains(LookedAt, Chars_day_before_yesterday)
    /\ result = DtSub(args.reference_date, Days(1)).v

\* the days from the day of a to the day of b whose weekday is Monday to Friday
WeekdaysBetween(a, b) ==
    Cardinality({n \in toordinal(a)..toordinal(b) : (n + 6) % 7 < 5})

\* C8: calculate_business_days(start, end) is the number of calendar days from
\* the day of start to the day of end that are Monday to Friday, whatever the
\* times of day (0 when start is after end).
C8_BusinessDays ==
    pc = "done" /\ fn = "calculate_business_days" =>
        /\ exc = ""
        /\ result = IF DtLess(args.end_date, args.start_date) THEN 0
                    ELSE WeekdaysBetween(args.start_date, args.end_date)

(***************************************************************************)
(* Properties of the format functions                                      *)
(***************************************************************************)
\* C9: whenever len(items) > max_items >= 0, format_list_display returns the
\* first max_items items joined by the separator followed by ' and {k} more',
\* k = len(items) - max_items.
C9_ShowsAtMostMaxItems ==
    /\ pc = "done"
    /\ fn = "format_list_display"
    /\ args.max_items >= 0
    /\ Len(args.items) > args.max_items
    => /\ exc = ""
       /\ result = join(args.separator,
                        [i \in 1..args.max_items |-> str_item(args.items[i])])
                   \o Chars_and \o str_int(Len(args.items) - args.max_items) \o Chars_more

\* format_phone_number was given a string of exactly ten digits
TenDigitCall ==
    /\ pc = "done"
    /\ fn = "format_phone_number"
    /\ Len(args.phone) = 10
    /\ \A i \in 1..10 : IsDigit(args.phone[i])

\* C10 (as claimed): for a string d of exactly ten digits, the digits of
\* format_phone_number(d) (default country code) are exactly d.
C10_DigitsRoundTripAlways ==
    TenDigitCall /\ args.country_code = DefaultCountryCode =>
        exc = "" /\ digits_of(result) = args.phone

\* C10 (amended): for a string d of exactly ten digits and every country code,
\* the digits of the output are the digits of the country code followed by d,
\* so the last ten digits of the output are d.
C10_DigitsRoundTrip ==
    TenDigitCall =>
        /\ exc = ""
        /\ digits_of(result) = digits_of(args.country_code) \o args.phone
        /\ SliceFrom(digits_of(result), Len(digits_of(result)) - 10) = args.phone

\* ten digits formatted with the default country code
C10_Witness ==
    /\ TenDigitCall
    /\ args.country_code = DefaultCountryCode
    /\ args.phone = <<"9", "0", "0", "9", "9", "0", "9", "0", "0", "9">>
    /\ result = <<"+", "9", "1", " ", "9", "0", "0", "9", "9", " ", "0", "9", "0", "0", "9">>

\* C12: for every text, every max_length >= 0 and every suffix, the string
\* truncate_text returns is at most max_length characters long.
C12_TruncatedFits ==
    pc = "done" /\ fn = "truncate_text" /\ args.max_length >= 0 =>
        exc = "" /\ Len(result) <= args.max_length

(***************************************************************************)
(* Properties of validate_currency_amount                                  *)
(***************************************************************************)
CurrencyCall ==
    pc = "done" /\ fn = "validate_currency_amount" /\ args.amount_str.type = "str"

\* the text once trimmed, without a leading currency symbol and without commas
AmountText ==
    LET trimmed == strip(args.amount_str.s)
        n == Len(args.currency_symbol)
        bare == IF Len(trimmed) >= n /\ SubSeq(trimmed, 1, n) = args.currency_symbol
                THEN strip(SubSeq(trimmed, n + 1, Len(trimmed)))
                ELSE trimmed
    IN  strip(SelectSeq(bare, LAMBDA c : c # ","))

LitSigned == AmountText # <<>> /\ AmountText[1] \in {"+", "-"}

LitBody == IF LitSigned THEN Tail(AmountText) ELSE AmountText

LitMarkers == {i \in 1..Len(LitBody) : LitBody[i] \in {"e", "E"}}

LitMarker == IF LitMarkers = {} THEN Len(LitBody) + 1 ELSE CHOOSE i \in LitMarkers : TRUE

LitMantissa == SubSeq(LitBody, 1, LitMarker - 1)

LitExpPart == SubSeq(LitBody, LitMarker + 1, Len(LitBody))

LitExpDigits ==
    IF LitExpPart # <<>> /\ LitExpPart[1] \in {"+", "-"} THEN Tail(LitExpPart) ELSE LitExpPart

LitPoints == {i \in 1..Len(LitMantissa) : LitMantissa[i] = "."}

LitPoint == IF LitPoints = {} THEN Len(LitMantissa) + 1 ELSE CHOOSE i \in LitPoints : TRUE

\* the digits of the mantissa, the point left out
LitDigits == SelectSeq(LitMantissa, LAMBDA c : c # ".")

\* a decimal literal: [sign] digits [. digits] [e [sign] digits], at least one
\* digit in the mantissa
IsLiteral ==
    /\ Cardinality(LitMarkers) <= 1
    /\ Cardinality(LitPoints) <= 1
    /\ LitDigits # <<>>
    /\ \A i \in 1..Len(LitDigits) : IsDigit(LitDigits[i])
    /\ LitMarkers # {} => LitExpDigits # <<>>
    /\ \A i \in 1..Len(LitExpDigits) : IsDigit(LitExpDigits[i])

\* the value of the literal is > 0
LitPositive ==
    /\ ~(LitSigned /\ AmountText[1] = "-")
    /\ \E i \in 1..Len(LitDigits) : LitDigits[i] # "0"

LitWrittenExponent ==
    IF LitMarkers = {} THEN 0
    ELSE IF LitExpPart[1] = "-" THEN -DigitsToNat(LitExpDigits)
    ELSE DigitsToNat(LitExpDigits)

\* the decimal exponent: the written exponent less the written fractional digits
LitExponent ==
    LitWrittenExponent - (IF LitPoints = {} THEN 0 ELSE Len(LitMantissa) - LitPoint)

RECURSIVE ZerosOffFront(_)
ZerosOffFront(cs) == IF cs # <<>> /\ cs[1] = "0" THEN ZerosOffFront(Tail(cs)) ELSE cs

RECURSIVE ZerosOffBack(_)
ZerosOffBack(cs) ==
    IF cs # <<>> /\ cs[Len(cs)] = "0" THEN ZerosOffBack(SubSeq(cs, 1, Len(cs) - 1)) ELSE cs

\* a number as <<integral digits, fractional digits>>, no leading zeros in the
\* first and no trailing zeros in the second
Numeral(ints, fracs) == <<ZerosOffFront(ints), ZerosOffBack(fracs)>>

\* the value of a positive literal: its digits with the point moved by the
\* written exponent
LitValue ==
    LET p == (LitPoint - 1) + LitWrittenExponent
        d == LitDigits
    IN  IF p <= 0 THEN Numeral(<<>>, [i \in 1..(-p) |-> "0"] \o d)
        ELSE IF p >= Len(d) THEN Numeral(d \o [i \in 1..(p - Len(d)) |-> "0"], <<>>)
        ELSE Numeral(SubSeq(d, 1, p), SubSeq(d, p + 1, Len(d)))

\* the value of a float
FloatValue(a) ==
    CASE a.kind = "fin" ->
            Numeral(NatToChars(a.int), [i \in 1..Len(a.frac) |-> DigitChars[a.frac[i] + 1]])
      [] a.kind = "big" ->
            Numeral([i \in 1..Len(a.frac) |-> DigitChars[a.frac[i] + 1]]
                        \o [i \in 1..a.int |-> "0"], <<>>)
      [] OTHER -> <<<<a.kind>>, <<>>>>

CurrencySucceeds == exc = "" /\ result[1] = TRUE

\* C11: validate_currency_amount succeeds exactly when the trimmed text, its
\* currency symbol and commas removed, is a decimal literal of value > 0 and
\* decimal exponent >= -2, and then returns that value; a literal of value
\* <= 0 fails with 'Amount must be greater than zero' (checked first), and a
\* literal of value > 0 and decimal exponent < -2 fails with 'Amount cannot
\* have more than 2 decimal places'.
C11_CurrencyAmountExact ==
    CurrencyCall =>
        /\ CurrencySucceeds <=> (IsLiteral /\ LitPositive /\ LitExponent >= -2)
        /\ CurrencySucceeds => FloatValue(result[2][1]) = LitValue
        /\ IsLiteral /\ ~LitPositive =>
              /\ exc = ""
              /\ result = <<FALSE, None, Some("Amount must be greater than zero")>>
        /\ IsLiteral /\ LitPositive /\ LitExponent < -2 =>
              /\ exc = ""
              /\ result = <<FALSE, None,
                            Some("Amount cannot have more than 2 decimal places")>>

\* C11 but for the amounts beyond the doubles, which are returned as inf: the
\* verdicts, the messages and every finite returned value are as C11 says
C11_Verdicts ==
    CurrencyCall =>
        /\ CurrencySucceeds <=> (IsLiteral /\ LitPositive /\ LitExponent >= -2)
        /\ CurrencySucceeds /\ FloatValue(result[2][1])[1] # <<"inf">>
              => FloatValue(result[2][1]) = LitValue
        /\ IsLiteral /\ ~LitPositive =>
              /\ exc = ""
              /\ result = <<FALSE, None, Some("Amount must be greater than zero")>>
        /\ IsLiteral /\ LitPositive /\ LitExponent < -2 =>
              /\ exc = ""
              /\ result = <<FALSE, None,
                            Some("Amount cannot have more than 2 decimal places")>>

(***************************************************************************)
(* Properties of sanitize_input                                            *)
(***************************************************************************)
\* C13: sanitize_input is idempotent: sanitizing its output again, with the
\* same max_length >= 0, changes nothing.
C13_SanitizeIdempotent ==
    pc = "done" /\ fn = "sanitize_input" /\ args.max_length >= 0 =>
        /\ exc = ""
        /\ sanitize_input(result, args.max_length) = Return(result)

(***************************************************************************)
(* Properties of consecutive date ranges                                   *)
(***************************************************************************)
PreviousCall ==
    pc = "done" /\ fn = "get_date_range" /\ args.period \in {"last_week", "last_month"}

\* the current-period call for the same reference instant
Current ==
    get_date_range(IF args.period = "last_week" THEN "week" ELSE "month",
                   args.reference_date)

\* the previous period ends one microsecond before the current one begins,
\* and each of the two ranges has start <= end
Adjacent ==
    /\ exc = ""
    /\ Current.exc = ""
    /\ DtAdd(result[2], Microsecond) = Ok(Current.ret[1][1])
    /\ DtLeq(result[1], result[2])
    /\ DtLeq(Current.ret[1][1], Current.ret[1][2])

\* C14 (as claimed): for every reference instant, the end of
\* get_date_range('last_week', ref) plus one microsecond is the start of
\* get_date_range('week', ref), the end of get_date_range('last_month', ref)
\* plus one microsecond is the start of get_date_range('month', ref), and
\* each range has start <= end.
C14_AdjacentAlways == PreviousCall => Adjacent

\* C14 (amended): the same for every reference instant whose previous and
\* current week lie within 0001-01-01..9999-12-31, and for every reference
\* instant from February 0001 to November 9999.  In the first week of year 1
\* the 'last_week' call raises OverflowError and in the last five days of
\* year 9999 the 'week' call does; in January 0001 the 'last_month' call
\* raises ValueError and in December 9999 the 'month' call does.
C14_Adjacent ==
    PreviousCall =>
        LET ref == args.reference_date
        IN  IF args.period = "last_week"
            THEN IF MondayOf(ref) - 7 < 1 THEN exc = "OverflowError"
                 ELSE IF MondayOf(ref) + 6 > MaxOrdinal
                 THEN exc = "" /\ Current.exc = "OverflowError"
                 ELSE Adjacent
            ELSE IF ref.year = MINYEAR /\ ref.month = 1 THEN exc = "ValueError"
                 ELSE IF ref.year = MAXYEAR /\ ref.month = 12
                 THEN exc = "" /\ Current.exc = "ValueError"
                 ELSE Adjacent

\* the month before a 31 March is the 29-day February of a leap year
C14_Witness ==
    /\ PreviousCall
    /\ args.period = "last_month"
    /\ args.reference_date.month = 3
    /\ args.reference_date.day = 31
    /\ result = <<At(2024, 2, 1, Midnight), At(2024, 2, 29, LastInstant)>>
    /\ Current.ret[1][1] = At(2024, 3, 1, Midnight)

====
